---- MODULE Spec2Model ----
(***************************************************************************)
(* Model of overnight_returns.py: the 5pm-Central reference instant, the   *)
(* two-tier reference-price lookup, the current-price lookup, the return   *)
(* computation and the per-ticker loop of main().                          *)
(*                                                                         *)
(* Time: an instant is [s, us], s = whole seconds since                    *)
(* 2026-01-01T00:00:00Z, us = microseconds within the second (pandas       *)
(* Timestamps are absolute instants carrying a time zone).                 *)
(* Prices: integers in thousandths (100.0 is 100000); a price that may be  *)
(* None is [some, v].  NaN closes are not modelled.                        *)
(***************************************************************************)
EXTENDS Integers, Sequences, FiniteSets, TLC

VARIABLES
    pc,        \* position: "call"/"returned" (one function), "start"/"loop"/"output"/"done"/"aborted" (main)
    fn,        \* the function being exercised, or "main"
    now,       \* the wall clock (an instant)
    ref_time,  \* main's ref_time / the ref_time argument of price_at_5pm_ct
    hist,      \* what the hourly history() call does for the current lookup
    hist_d,    \* what the daily history() call does for the current lookup
    p_5pm,     \* result of price_at_5pm_ct
    p_now,     \* result of current_price
    ret_pct,   \* main's ret_pct
    calls,     \* provider calls issued by the last lookup, in order
    raised,    \* an exception escaped the last function
    tickers,   \* main's input list
    idx,       \* number of tickers already processed by main's loop
    rows,      \* main's rows
    failed,    \* per processed ticker: which provider calls fail
    emailed,   \* main reached the email branch
    ref_ct     \* the instant named in the email subject

vars == <<pc, fn, now, ref_time, hist, hist_d, p_5pm, p_now, ret_pct, calls,
          raised, tickers, idx, rows, failed, emailed, ref_ct>>

----------------------------------------------------------------------------
(* Bounds *)

MaxBars == 2
MaxDaily == 3
MaxTickers == 2

----------------------------------------------------------------------------
(* Time and the America/Chicago zone *)

SecondsPerHour == 60 * 60
SecondsPerDay == 24 * SecondsPerHour

FivePm == 17

\* 2026-03-08 02:00 CST = 08:00Z (day 66 of 2026) and 2026-11-01 02:00 CDT = 07:00Z (day 304)
SpringForward == 66 * SecondsPerDay + 8 * SecondsPerHour
FallBack == 304 * SecondsPerDay + 7 * SecondsPerHour

\* UTC offset of America/Chicago in effect at the absolute second t
UtcOffset(t) ==
    IF SpringForward <= t /\ t < FallBack THEN -5 * SecondsPerHour
                                           ELSE -6 * SecondsPerHour

\* Central wall-clock reading (seconds since 2026-01-01 00:00 local) of t
WallClock(t) == t + UtcOffset(t)

\* The instant whose Central wall-clock reading is w (w not in a gap or an overlap)
Localize(w) ==
    CHOOSE t \in {w + 5 * SecondsPerHour, w + 6 * SecondsPerHour} : WallClock(t) = w

TsLE(a, b) == a.s < b.s \/ (a.s = b.s /\ a.us <= b.us)

\* now_ct.replace(hour=17, minute=0, second=0, microsecond=0)
Replace5pm(t) ==
    [s  |-> Localize((WallClock(t.s) \div SecondsPerDay) * SecondsPerDay
                     + FivePm * SecondsPerHour),
     us |-> 0]

\* ts - timedelta(days=1): arithmetic on the absolute instant
MinusOneDay(t) == [s |-> t.s - SecondsPerDay, us |-> t.us]

get_most_recent_5pm_ct(n) ==
    LET today_5pm == Replace5pm(n)
    IN  IF TsLE(today_5pm, n) THEN today_5pm ELSE MinusOneDay(today_5pm)

----------------------------------------------------------------------------
(* Values *)

None == [some |-> FALSE, v |-> 0]
Some(x) == [some |-> TRUE, v |-> x]

NoInstant == [s |-> 0, us |-> 0]

\* a history() outcome: it raises, or returns a frame (tz "" is a naive index)
Raises == [raises |-> TRUE, tz |-> "", bars |-> <<>>]
Frame(tz, bars) == [raises |-> FALSE, tz |-> tz, bars |-> bars]
EmptyFrame == Frame("", <<>>)

\* nearest integers to num/den (den > 0); an exact tie is decided by the binary
\* floating-point value, so both neighbours are possible
RoundNearest(num, den) ==
    LET q == num \div den
        r == num % den
    IN  IF 2 * r < den THEN {q}
        ELSE IF 2 * r > den THEN {q + 1}
        ELSE {q, q + 1}

Abs(x) == IF x < 0 THEN -x ELSE x

----------------------------------------------------------------------------
(* price_at_5pm_ct and current_price *)

\* faulty variant: the hourly fetch without its try/except
HourlyFetchNoCatch(out) ==
    [raised |-> out.raises, frame |-> IF out.raises THEN EmptyFrame ELSE out]

\* try: history(interval="1h", period="7d") except Exception: hist = pd.DataFrame()
HourlyFetch(out) ==
    [raised |-> FALSE, frame |-> IF out.raises THEN EmptyFrame ELSE out]

\* try: history(period="5d") except Exception: return None
DailyFetch(out) ==
    [raised |-> FALSE, failed |-> out.raises,
     frame |-> IF out.raises THEN EmptyFrame ELSE out]

\* ref_time.astimezone(pytz.UTC).replace(tzinfo=None): the UTC reading of the instant
RefNaive(ref) == [s |-> ref.s, us |-> ref.us]

\* hist.index.tz_convert(pytz.UTC).tz_localize(None) when the index is tz-aware;
\* a naive index is compared as it is
NormalizeIndex(frame) ==
    [k \in 1..Len(frame.bars) |->
        [s  |-> IF frame.tz # "" THEN frame.bars[k].wall - frame.bars[k].off
                                 ELSE frame.bars[k].wall,
         us |-> 0]]

\* hist[hist.index <= ref_naive], as the sequence of kept positions
Before(frame, ref) ==
    LET index == NormalizeIndex(frame)
        Keep[k \in 0..Len(frame.bars)] ==
            IF k = 0 THEN <<>>
            ELSE IF TsLE(index[k], RefNaive(ref)) THEN Append(Keep[k - 1], k)
            ELSE Keep[k - 1]
    IN  Keep[Len(frame.bars)]

\* lines 48-56: the hourly tier; None when it yields nothing
HourlyTier(frame, ref) ==
    IF Len(frame.bars) # 0
    THEN LET before == Before(frame, ref)
         IN  IF Len(before) # 0
             THEN Some(frame.bars[before[Len(before)]].Close)
             ELSE None
    ELSE None

\* faulty variant: the last daily bar instead of the second-to-last
DailyTierLast(frame) ==
    IF Len(frame.bars) = 0 \/ Len(frame.bars) < 2
    THEN None
    ELSE Some(frame.bars[Len(frame.bars)].Close)

\* lines 64-67: the daily tier
DailyTier(frame) ==
    IF Len(frame.bars) = 0 \/ Len(frame.bars) < 2
    THEN None
    ELSE Some(frame.bars[Len(frame.bars) - 1].Close)

\* faulty variant: both fetches issued up front
price_at_5pm_ct_eager(h, d, ref) ==
    LET f1 == HourlyFetch(h)
        f2 == DailyFetch(d)
        r1 == HourlyTier(f1.frame, ref)
    IN  [ret |-> IF r1.some THEN r1
                 ELSE IF f2.failed THEN None ELSE DailyTier(f2.frame),
         calls |-> <<"1h", "5d">>,
         raised |-> FALSE]

\* h, d: what the hourly and the daily history() calls do if they are issued
price_at_5pm_ct(h, d, ref) ==
    LET f1 == HourlyFetch(h)
    IN  IF f1.raised
        THEN [ret |-> None, calls |-> <<"1h">>, raised |-> TRUE]
        ELSE LET r1 == HourlyTier(f1.frame, ref)
             IN  IF r1.some
                 THEN [ret |-> r1, calls |-> <<"1h">>, raised |-> FALSE]
                 ELSE LET f2 == DailyFetch(d)
                      IN  IF f2.raised
                          THEN [ret |-> None, calls |-> <<"1h", "5d">>, raised |-> TRUE]
                          ELSE IF f2.failed
                          THEN [ret |-> None, calls |-> <<"1h", "5d">>, raised |-> FALSE]
                          ELSE [ret |-> DailyTier(f2.frame),
                                calls |-> <<"1h", "5d">>, raised |-> FALSE]

\* lines 72-75: try: history(period="5d") except Exception: return None
CurrentFetch(out) ==
    [raised |-> FALSE, failed |-> out.raises,
     frame |-> IF out.raises THEN EmptyFrame ELSE out]

\* faulty variant: the first bar of the window instead of the last
CurrentTierFirst(frame) ==
    IF Len(frame.bars) = 0
    THEN None
    ELSE Some(frame.bars[1].Close)

\* lines 76-78
CurrentTier(frame) ==
    IF Len(frame.bars) = 0
    THEN None
    ELSE Some(frame.bars[Len(frame.bars)].Close)

\* d: what the daily history() call does
current_price(d) ==
    LET f == CurrentFetch(d)
    IN  IF f.raised THEN [ret |-> None, calls |-> <<"5d">>, raised |-> TRUE]
        ELSE IF f.failed THEN [ret |-> None, calls |-> <<"5d">>, raised |-> FALSE]
        ELSE [ret |-> CurrentTier(f.frame), calls |-> <<"5d">>, raised |-> FALSE]

----------------------------------------------------------------------------
(* The return computed in main *)

Absent == [some |-> FALSE, neg |-> FALSE, hundredths |-> 0, unit |-> ""]

\* f"{round(ret_decimal * 100, 2)}%": a float prints its sign bit ("-0.0"), and the
\* sign bit of (p_now - p_5pm) / p_5pm is that of p_now - p_5pm
Percent(diff, r) ==
    [some |-> TRUE, neg |-> diff < 0, hundredths |-> Abs(r), unit |-> "%"]

\* faulty variant: a zero reference price is let through
NoReturnNegativeOnly(p5, pn) == ~p5.some \/ ~pn.some \/ p5.v < 0

\* line 273: no return is computed
NoReturn(p5, pn) == ~p5.some \/ ~pn.some \/ p5.v <= 0

\* lines 273-277: the possible values of ret_pct; dividing by 0.0 raises
\* ZeroDivisionError
compute_return(p5, pn) ==
    IF NoReturn(p5, pn)
    THEN [raised |-> FALSE, rets |-> {Absent}]
    ELSE IF p5.v = 0
    THEN [raised |-> TRUE, rets |-> {Absent}]
    ELSE [raised |-> FALSE,
          rets |-> {Percent(pn.v - p5.v, r) :
                      r \in RoundNearest(100 * 100 * (pn.v - p5.v), p5.v)}]

----------------------------------------------------------------------------
(* Inputs *)

SeqsUpTo(S, n) == UNION {[1..k -> S] : k \in 0..n}

\* the 17:00 Central boundary of calendar day d of 2026 (d = 0 is January 1)
Boundary(d) ==
    [s |-> Localize(d * SecondsPerDay + FivePm * SecondsPerHour), us |-> 0]

\* days around both 2026 offset changes, and a day far from them
Days == {65, 66, 67, 165, 303, 304, 305}

TimesOfDay ==
    {0,
     16 * SecondsPerHour + 59 * 60 + 59,
     17 * SecondsPerHour,
     17 * SecondsPerHour + 1,
     23 * SecondsPerHour + 59 * 60 + 59}

NowSet ==
    {[s |-> Localize(d * SecondsPerDay + t), us |-> u] :
        d \in Days, t \in TimesOfDay, u \in {0, 999999}}

RefSet == {Boundary(65), Boundary(165)}

HourlyCloses == {100000, 110000}
DailyCloses == {190000, 200000}

Zones == {"", "UTC", "America/Chicago"}

ZoneOffset(tz, t) == IF tz = "America/Chicago" THEN UtcOffset(t) ELSE 0

\* an hourly bar at the absolute second t, as a frame of zone tz shows it
Bar(tz, t, c) ==
    [wall |-> t + ZoneOffset(tz, t), off |-> ZoneOffset(tz, t), Close |-> c]

HourlyOutcomes(ref) ==
    {Raises} \cup
    UNION {{Frame(tz, bars) :
              bars \in SeqsUpTo({Bar(tz, ref.s + k * SecondsPerHour, c) :
                                   k \in {-1, 0, 1}, c \in HourlyCloses}, MaxBars)} :
           tz \in Zones}

DailyOutcomes ==
    {Raises} \cup
    {Frame("", bars) : bars \in SeqsUpTo({[Close |-> c] : c \in DailyCloses}, MaxDaily)}

PriceSet == {-5000, 0, 1, 100000, 100004, 110000, 190000, 199990, 200000}
MaybePrices == {None} \cup {Some(x) : x \in PriceSet}

----------------------------------------------------------------------------
(* One call of one function: Init draws the arguments and what the provider
   does, the action applies the function *)

MainIdle ==
    /\ tickers = <<>> /\ idx = 0 /\ rows = <<>> /\ failed = <<>>
    /\ emailed = FALSE /\ ref_ct = NoInstant

InitCall ==
    /\ pc = "call"
    /\ fn \in {"get_most_recent_5pm_ct", "price_at_5pm_ct", "current_price", "return"}
    /\ now \in IF fn = "get_most_recent_5pm_ct" THEN NowSet ELSE {NoInstant}
    /\ ref_time \in IF fn = "price_at_5pm_ct" THEN RefSet ELSE {NoInstant}
    /\ hist \in IF fn = "price_at_5pm_ct" THEN HourlyOutcomes(ref_time) ELSE {EmptyFrame}
    /\ hist_d \in IF fn \in {"price_at_5pm_ct", "current_price"}
                  THEN DailyOutcomes ELSE {EmptyFrame}
    /\ p_5pm \in IF fn = "return" THEN MaybePrices ELSE {None}
    /\ p_now \in IF fn = "return" THEN MaybePrices ELSE {None}
    /\ ret_pct = Absent
    /\ calls = <<>>
    /\ raised = FALSE
    /\ MainIdle

CallResolve ==
    /\ pc = "call" /\ fn = "get_most_recent_5pm_ct"
    /\ ref_time' = get_most_recent_5pm_ct(now)
    /\ pc' = "returned"
    /\ UNCHANGED <<fn, now, hist, hist_d, p_5pm, p_now, ret_pct, calls, raised,
                   tickers, idx, rows, failed, emailed, ref_ct>>

CallLookup ==
    /\ pc = "call" /\ fn = "price_at_5pm_ct"
    /\ LET r == price_at_5pm_ct(hist, hist_d, ref_time)
       IN  /\ p_5pm' = r.ret
           /\ calls' = r.calls
           /\ raised' = r.raised
    /\ pc' = "returned"
    /\ UNCHANGED <<fn, now, ref_time, hist, hist_d, p_now, ret_pct,
                   tickers, idx, rows, failed, emailed, ref_ct>>

CallCurrent ==
    /\ pc = "call" /\ fn = "current_price"
    /\ LET r == current_price(hist_d)
       IN  /\ p_now' = r.ret
           /\ calls' = r.calls
           /\ raised' = r.raised
    /\ pc' = "returned"
    /\ UNCHANGED <<fn, now, ref_time, hist, hist_d, p_5pm, ret_pct,
                   tickers, idx, rows, failed, emailed, ref_ct>>

CallReturn ==
    /\ pc = "call" /\ fn = "return"
    /\ LET r == compute_return(p_5pm, p_now)
       IN  /\ ret_pct' \in r.rets
           /\ raised' = r.raised
    /\ pc' = "returned"
    /\ UNCHANGED <<fn, now, ref_time, hist, hist_d, p_5pm, p_now, calls,
                   tickers, idx, rows, failed, emailed, ref_ct>>

NextCall == CallResolve \/ CallLookup \/ CallCurrent \/ CallReturn

SpecCall == InitCall /\ [][NextCall]_vars

----------------------------------------------------------------------------
(* main: the per-ticker loop and the email subject *)

\* faulty variant: the metadata fetch without its try/except
ticker_name_nocatch(tk, info) ==
    [ret |-> IF info.shortName # "" THEN info.shortName
             ELSE IF info.longName # "" THEN info.longName
             ELSE IF info.contractSymbol # "" THEN info.contractSymbol
             ELSE tk,
     raised |-> info.raises]

\* lines 83-92: the first non-empty of shortName, longName, contractSymbol, else
\* the ticker; the ticker too when the metadata fetch raises
ticker_name(tk, info) ==
    IF info.raises THEN [ret |-> tk, raised |-> FALSE]
    ELSE [ret |-> IF info.shortName # "" THEN info.shortName
                  ELSE IF info.longName # "" THEN info.longName
                  ELSE IF info.contractSymbol # "" THEN info.contractSymbol
                  ELSE tk,
          raised |-> FALSE]

\* lines 281-282: round(p, 2) if p is not None else None, in hundredths
Round2(p) ==
    IF p.some THEN {Some(r) : r \in RoundNearest(p.v, 10)} ELSE {None}

TickerSet == {"ES=F", "CL=F"}

Info(short, long, contract) ==
    [raises |-> FALSE, shortName |-> short, longName |-> long,
     contractSymbol |-> contract]
InfoRaises == [raises |-> TRUE, shortName |-> "", longName |-> "", contractSymbol |-> ""]

\* what the provider holds for each ticker: ES=F has hourly bars around the
\* reference instant, CL=F only hourly bars after it and no short name
Provider(tk, ref) ==
    IF tk = "ES=F"
    THEN [hourly |-> Frame("America/Chicago",
                           <<Bar("America/Chicago", ref.s - SecondsPerHour, 99500),
                             Bar("America/Chicago", ref.s, 100004),
                             Bar("America/Chicago", ref.s + SecondsPerHour, 101000)>>),
          daily  |-> Frame("", <<[Close |-> 98000], [Close |-> 99000],
                                 [Close |-> 110004]>>),
          info   |-> Info("E-Mini S&P 500", "", "")]
    ELSE [hourly |-> Frame("UTC", <<Bar("UTC", ref.s + SecondsPerHour, 61000)>>),
          daily  |-> Frame("", <<[Close |-> 200000], [Close |-> 190000]>>),
          info   |-> Info("", "Crude Oil", "")]

FailureSet == [hourly : BOOLEAN, daily : BOOLEAN, current : BOOLEAN, info : BOOLEAN]

\* instants around the 17:00 boundary of an ordinary day (2026-06-15)
NowMain ==
    {[s |-> Boundary(165).s + d, us |-> 0] : d \in {-10, 0, 5}}

Init ==
    /\ pc = "start"
    /\ fn = "main"
    /\ now \in NowMain
    /\ tickers \in SeqsUpTo(TickerSet, MaxTickers) \ {<<>>}
    /\ ref_time = NoInstant
    /\ hist = EmptyFrame /\ hist_d = EmptyFrame
    /\ p_5pm = None /\ p_now = None /\ ret_pct = Absent
    /\ calls = <<>> /\ raised = FALSE
    /\ idx = 0 /\ rows = <<>> /\ failed = <<>>
    /\ emailed = FALSE /\ ref_ct = NoInstant

\* the wall clock advances while main runs
Tick ==
    /\ fn = "main" /\ pc \in {"start", "loop"}
    /\ \E n \in NowMain : ~TsLE(n, now) /\ now' = n
    /\ UNCHANGED <<pc, fn, ref_time, hist, hist_d, p_5pm, p_now, ret_pct, calls,
                   raised, tickers, idx, rows, failed, emailed, ref_ct>>

\* lines 267-268
Start ==
    /\ fn = "main" /\ pc = "start"
    /\ ref_time' = get_most_recent_5pm_ct(now)
    /\ pc' = "loop"
    /\ UNCHANGED <<fn, now, hist, hist_d, p_5pm, p_now, ret_pct, calls, raised,
                   tickers, idx, rows, failed, emailed, ref_ct>>

\* lines 270-284: one iteration of the loop; f says which provider calls fail
ProcessTicker ==
    /\ fn = "main" /\ pc = "loop" /\ idx < Len(tickers)
    /\ \E f \in FailureSet :
        LET tk   == tickers[idx + 1]
            data == Provider(tk, ref_time)
            h    == IF f.hourly THEN Raises ELSE data.hourly
            d    == IF f.daily THEN Raises ELSE data.daily
            c    == IF f.current THEN Raises ELSE data.daily
            i    == IF f.info THEN InfoRaises ELSE data.info
            r5   == price_at_5pm_ct(h, d, ref_time)
            rn   == current_price(c)
            cr   == compute_return(r5.ret, rn.ret)
            nm   == ticker_name(tk, i)
        IN  /\ hist' = h /\ hist_d' = d
            /\ failed' = Append(failed, f)
            /\ IF r5.raised \/ rn.raised \/ cr.raised \/ nm.raised
               THEN /\ pc' = "aborted"
                    /\ raised' = TRUE
                    /\ UNCHANGED <<p_5pm, p_now, ret_pct, calls, idx, rows>>
               ELSE /\ p_5pm' = r5.ret
                    /\ p_now' = rn.ret
                    /\ ret_pct' \in cr.rets
                    /\ calls' = r5.calls \o rn.calls
                    /\ \E a \in Round2(r5.ret), b \in Round2(rn.ret) :
                          rows' = Append(rows,
                                         [ticker |-> tk,
                                          name |-> nm.ret,
                                          price_5pm_ct |-> a,
                                          price_current |-> b,
                                          return_since_5pm_ct |-> ret_pct'])
                    /\ idx' = idx + 1
                    /\ UNCHANGED <<pc, raised>>
    /\ UNCHANGED <<fn, now, ref_time, tickers, emailed, ref_ct>>

\* lines 286-305: the table is emitted; with --email the subject names
\* get_most_recent_5pm_ct() as computed then
Output ==
    /\ fn = "main" /\ pc = "loop" /\ idx = Len(tickers)
    /\ \E email \in BOOLEAN :
        /\ emailed' = email
        /\ ref_ct' = IF email THEN get_most_recent_5pm_ct(now) ELSE NoInstant
    /\ pc' = "done"
    /\ UNCHANGED <<fn, now, ref_time, hist, hist_d, p_5pm, p_now, ret_pct, calls,
                   raised, tickers, idx, rows, failed>>

Next == Tick \/ Start \/ ProcessTicker \/ Output

Spec == Init /\ [][Next]_vars

----------------------------------------------------------------------------
(* Properties of single calls *)

Returned(f) == pc = "returned" /\ fn = f

TimeOfDay(t) == WallClock(t) % SecondsPerDay
CalendarDay(t) == WallClock(t) \div SecondsPerDay

\* the absolute second of an hourly bar
ObsInstant(bar) == bar.wall - bar.off

\* positions of the hourly observations at or before the reference instant
AtOrBefore(h, ref) ==
    {k \in 1..Len(h.bars) : TsLE([s |-> ObsInstant(h.bars[k]), us |-> 0], ref)}

HourlyYields == ~hist.raises /\ AtOrBefore(hist, ref_time) # {}

\* C1: for every now, the returned instant is <= now and reads exactly
\* 17:00:00.000 on the Central wall clock, for today's and for the previous
\* day's boundary
C1_BoundaryAtFivePm ==
    Returned("get_most_recent_5pm_ct") =>
        /\ TsLE(ref_time, now)
        /\ TimeOfDay(ref_time.s) = FivePm * SecondsPerHour
        /\ ref_time.us = 0

\* C2: at exactly today's 17:00:00.000 Central the result is today's boundary
\* (= now); one second before it, the result is the previous day's 17:00 boundary
C2_InclusiveBoundary ==
    Returned("get_most_recent_5pm_ct") =>
        LET today == Boundary(CalendarDay(now.s))
        IN  /\ now = today => ref_time = now
            /\ now = [s |-> today.s - 1, us |-> 0]
                   => ref_time = Boundary(CalendarDay(now.s) - 1)

\* C3: when some hourly observation is at or before the reference instant, the
\* result is the close of the observation with the greatest such timestamp,
\* whatever the order and the zone of the returned observations
C3_LatestObservation ==
    (Returned("price_at_5pm_ct") /\ HourlyYields) =>
        /\ p_5pm.some
        /\ \E k \in AtOrBefore(hist, ref_time) :
              /\ \A j \in AtOrBefore(hist, ref_time) :
                    ObsInstant(hist.bars[j]) <= ObsInstant(hist.bars[k])
              /\ p_5pm.v = hist.bars[k].Close

\* C4: when the hourly series is empty or has no observation at or before the
\* reference instant and the daily series has at least 2 bars, the result is the
\* close of the second-to-last daily bar
C4_DailyFallback ==
    (/\ Returned("price_at_5pm_ct")
     /\ ~hist.raises /\ AtOrBefore(hist, ref_time) = {}
     /\ ~hist_d.raises /\ Len(hist_d.bars) >= 2) =>
        p_5pm = Some(hist_d.bars[Len(hist_d.bars) - 1].Close)

C4_Witness ==
    /\ Returned("price_at_5pm_ct")
    /\ ~hist.raises /\ Len(hist.bars) = 2 /\ AtOrBefore(hist, ref_time) = {}
    /\ ~hist_d.raises /\ Len(hist_d.bars) = 3
    /\ hist_d.bars[2].Close # hist_d.bars[3].Close
    /\ hist_d.bars[2].Close # hist_d.bars[1].Close
    /\ p_5pm = Some(hist_d.bars[2].Close)

\* C5: price_at_5pm_ct never raises; an exception in the hourly fetch counts as
\* an empty hourly series, so the daily fallback is still attempted; an exception
\* in the daily fetch counts as empty daily data; with no hourly result and a
\* daily series that is missing, empty or shorter than 2 bars the result is None
C5_LookupNeverRaises ==
    Returned("price_at_5pm_ct") =>
        /\ ~raised
        /\ hist.raises =>
              /\ calls = <<"1h", "5d">>
              /\ (~hist_d.raises /\ Len(hist_d.bars) >= 2)
                    => p_5pm = Some(hist_d.bars[Len(hist_d.bars) - 1].Close)
        /\ (~HourlyYields /\ (hist_d.raises \/ Len(hist_d.bars) < 2))
              => p_5pm = None

C5_Witness ==
    /\ Returned("price_at_5pm_ct")
    /\ hist.raises /\ hist_d.raises
    /\ ~raised /\ p_5pm = None /\ calls = <<"1h", "5d">>

\* C6: the return is Absent exactly when the reference price is None, the
\* current price is None or the reference price is <= 0 (no division by a
\* non-positive reference); otherwise it is ((current - reference) / reference)
\* * 100 rounded to 2 decimals with a percent marker and the sign of
\* current - reference; 100.0 -> 110.0 gives 10.0%, 200.0 -> 190.0 gives -5.0%
C6_Return ==
    Returned("return") =>
        /\ ~raised
        /\ ret_pct = Absent <=> (~p_5pm.some \/ ~p_now.some \/ p_5pm.v <= 0)
        /\ ret_pct.some =>
              /\ ret_pct.unit = "%"
              /\ ret_pct.neg <=> p_now.v < p_5pm.v
              /\ 2 * Abs(ret_pct.hundredths * p_5pm.v
                         - 100 * 100 * Abs(p_now.v - p_5pm.v)) <= p_5pm.v
        /\ (p_5pm = Some(100000) /\ p_now = Some(110000))
              => (ret_pct.some /\ ~ret_pct.neg /\ ret_pct.hundredths = 1000)
        /\ (p_5pm = Some(200000) /\ p_now = Some(190000))
              => (ret_pct.some /\ ret_pct.neg /\ ret_pct.hundredths = 500)

C6_Witness ==
    /\ Returned("return")
    /\ p_5pm = Some(200000) /\ p_now = Some(190000)
    /\ ret_pct = [some |-> TRUE, neg |-> TRUE, hundredths |-> 500, unit |-> "%"]

\* C8: current_price never raises; it returns the close of the last bar of a
\* non-empty window, and None when the provider call raises or the window is empty
C8_CurrentPrice ==
    Returned("current_price") =>
        /\ ~raised
        /\ (hist_d.raises \/ Len(hist_d.bars) = 0) => p_now = None
        /\ (~hist_d.raises /\ Len(hist_d.bars) > 0)
              => p_now = Some(hist_d.bars[Len(hist_d.bars)].Close)

C8_Witness ==
    /\ Returned("current_price")
    /\ ~hist_d.raises /\ Len(hist_d.bars) = 3
    /\ hist_d.bars[3].Close # hist_d.bars[2].Close
    /\ hist_d.bars[3].Close # hist_d.bars[1].Close
    /\ p_now = Some(hist_d.bars[3].Close)

Count(seq, x) == Cardinality({k \in 1..Len(seq) : seq[k] = x})

\* C10: in one reference-price lookup the hourly fetch is issued exactly once
\* and first; the daily fetch at most once and only after the hourly tier gave
\* no result; no fetch is retried
C10_FetchOrder ==
    Returned("price_at_5pm_ct") =>
        /\ Len(calls) >= 1 /\ calls[1] = "1h"
        /\ Count(calls, "1h") = 1
        /\ Count(calls, "5d") <= 1
        /\ HourlyYields => Count(calls, "5d") = 0

C10_Witness ==
    /\ Returned("price_at_5pm_ct")
    /\ HourlyYields /\ ~hist_d.raises /\ Len(hist_d.bars) >= 2
    /\ calls = <<"1h">> /\ p_5pm.some

----------------------------------------------------------------------------
(* Properties of main *)

\* the rows main builds when no provider call fails
ExpectedRow(tk) ==
    IF tk = "ES=F"
    THEN [ticker |-> "ES=F", name |-> "E-Mini S&P 500",
          price_5pm_ct |-> Some(10000), price_current |-> Some(11000),
          return_since_5pm_ct |->
              [some |-> TRUE, neg |-> FALSE, hundredths |-> 1000, unit |-> "%"]]
    ELSE [ticker |-> "CL=F", name |-> "Crude Oil",
          price_5pm_ct |-> Some(20000), price_current |-> Some(19000),
          return_since_5pm_ct |->
              [some |-> TRUE, neg |-> TRUE, hundredths |-> 500, unit |-> "%"]]

NoFailure == [hourly |-> FALSE, daily |-> FALSE, current |-> FALSE, info |-> FALSE]
AllFail == [hourly |-> TRUE, daily |-> TRUE, current |-> TRUE, info |-> TRUE]

\* C7: whatever provider calls fail, the run is not aborted and the output has
\* exactly one row per input ticker in input order; a ticker whose calls fail
\* gets absent price/return fields, and the row of a ticker none of whose calls
\* failed is the row it has when nothing fails
C7_OneRowPerTicker ==
    fn = "main" =>
        /\ pc # "aborted"
        /\ Len(rows) = idx /\ Len(failed) = idx /\ idx <= Len(tickers)
        /\ pc = "done" => Len(rows) = Len(tickers)
        /\ \A k \in 1..Len(rows) :
              /\ rows[k].ticker = tickers[k]
              /\ (failed[k].hourly /\ failed[k].daily) =>
                    /\ rows[k].price_5pm_ct = None
                    /\ rows[k].return_since_5pm_ct = Absent
              /\ failed[k].current =>
                    /\ rows[k].price_current = None
                    /\ rows[k].return_since_5pm_ct = Absent
              /\ failed[k].info => rows[k].name = tickers[k]
              /\ failed[k] = NoFailure => rows[k] = ExpectedRow(tickers[k])

C7_Witness ==
    /\ fn = "main" /\ pc = "done"
    /\ Len(tickers) = 2 /\ Len(rows) = 2
    /\ failed[1] = AllFail /\ failed[2] = NoFailure
    /\ rows[1] = [ticker |-> tickers[1], name |-> tickers[1],
                  price_5pm_ct |-> None, price_current |-> None,
                  return_since_5pm_ct |-> Absent]
    /\ rows[2] = ExpectedRow(tickers[2])

\* C9: one reference instant serves every ticker of a run, and the instant named
\* in the email subject is that same instant, even when the clock crosses a
\* 17:00 Central boundary during the run
C9_SubjectInstant ==
    (fn = "main" /\ pc = "done" /\ emailed) => ref_ct = ref_time

====
